---------------------------- MODULE Spec2Model ----------------------------
(***************************************************************************)
(* Client-side synchronisation layer of the planner application.           *)
(*                                                                         *)
(*   SpecHabit  the habit streak state machine of src/app.js HabitTracker: *)
(*              one habit document, its mirrored copy, the calendar.       *)
(*   Spec       the realtime binding of remote collections to view state:  *)
(*              identity session, subscriptions, mirrors, seeding and the  *)
(*              write handlers of src/app.js; session and listeners of     *)
(*              src/unnamed/part_000.                                      *)
(*   SpecTasks  part_000 with the user in the Task Manager view.           *)
(*   SpecReflection  part_000 with the user in the Reflection view.        *)
(***************************************************************************)
EXTENDS Integers, Sequences, FiniteSets, TLC

VARIABLES
    \* ---- habit streak state machine (src/app.js HabitTracker) ----
    habitDoc,     \* the habit document as held by the store
    habitItem,    \* the habit as mirrored in the `habits` prop
    clock,        \* the calendar date (new Date().toISOString().split('T')[0])
    today,        \* HabitTracker's `today`, computed when the component renders
    trail,        \* the last two toggles: <<[day, before, after], ...>>
    \* ---- application state (App component of either variant) ----
    variant,      \* "app" (src/app.js) or "part" (src/unnamed/part_000)
    configOk,     \* the deployment supplies the store credentials
    initialAuthToken, \* src/app.js: a custom token (__initial_auth_token) is supplied
    mounted,      \* the mount effects have run
    db,           \* db / dbInstance is set
    userId,       \* userId state ("null" for the absent identifier)
    isAuthReady,  \* isAuthReady state
    appError,     \* part_000: the `error` state (critical error panel)
    mirror,       \* per mirror: [data, loading, error]
    dailyReflection, \* part_000: the dailyReflection state
    bound,        \* per binding: the path its effect subscribed under ("none")
    subDeps,      \* dependencies seen by the last run of the subscription effects
    seedDeps,     \* dependencies seen by the last run of the seeding effect
    \* ---- identity provider ----
    persisted,    \* the user the provider restores from an earlier visit
    authInit,     \* the provider finished restoring its session
    currentUser,  \* auth.currentUser
    calls,        \* the sign-in calls in progress
    nextUid,      \* users created so far
    \* ---- document store ----
    store,        \* per user path and collection: the set of documents
    nextDocId,    \* the next id the store assigns (no id is reused)
    streams,      \* the snapshot listeners registered with the store
    now,          \* the wall clock (new Date())
    \* ---- observation ----
    seedCount,    \* per user path and collection: inserts of the seeding effect
    scenario,     \* how far the user's operations follow add, then toggle it
    lastSnap,     \* per mirror: the snapshot last applied to it
    applied,      \* per mirror: the user path whose snapshot was last applied
    lastSave,     \* part_000: the last call of handleSaveReflection
    unhandled,    \* a rejected promise that nothing handles has been seen
    \* ---- part_000 ReflectionView ----
    reflectionView, \* isSaving and saveStatus of the mounted ReflectionView
    pending,        \* the calls of ReflectionView.handleSave awaiting their write
    timers,         \* the clear-timers of the mounted view: seconds since each was set
    \* ---- HabitTracker's edit form ----
    editingHabit, \* <<>> or <<the habit object the edit form was opened on>>
    \* ---- pages of src/app.js with component-local state ----
    dashboard,    \* Dashboard: its tasks prop and the top3Priorities it rendered
    checkedState, \* DailyRoutine: per block, the array of checked activity ids
    lastCheck,    \* DailyRoutine: the last call of handleCheck and its updater runs
    taskDoc,      \* TaskManager: a task's document in the store
    taskItem,     \* TaskManager: the task as the rendered list has it
    editingTask,  \* TaskManager: <<>> or <<the task the edit form was opened on>>
    focus         \* FocusMode: isPomodoro, time, isActive and the interval registered

habitVars == <<habitDoc, habitItem, clock, today, trail, editingHabit>>
appVars == <<variant, configOk, initialAuthToken, mounted, db, userId, isAuthReady, appError,
             mirror, dailyReflection, bound, subDeps, seedDeps>>
authVars == <<persisted, authInit, currentUser, calls, nextUid>>
storeVars == <<store, nextDocId, streams, now>>
obsVars == <<seedCount, scenario, lastSnap, applied, lastSave, unhandled>>
viewVars == <<reflectionView, pending, timers>>
syncVars == <<appVars, authVars, storeVars, obsVars, viewVars>>
pageVars == <<dashboard, checkedState, lastCheck, taskDoc, taskItem, editingTask, focus>>
vars == <<habitVars, syncVars, pageVars>>

-----------------------------------------------------------------------------
(* Bounds *)

MaxStreak == 2      \* largest streak a habit starts with
MaxDay == 3         \* calendar dates are 0..MaxDay

Days == 0..MaxDay

-----------------------------------------------------------------------------
(* Documents, paths and mirrors *)

MaxDocs == 3        \* the store assigns the document ids 1..MaxDocs
MaxUsers == 2       \* users the identity provider creates
MaxErrors == 1      \* failures of snapshot streams followed
MaxTime == 2        \* the wall clock runs over 1..MaxTime
MaxPending == 2     \* reflection writes followed while in flight
MaxTimers == 2      \* clear-timers of the reflection status followed at once

\* src/unnamed/part_000 line 421: the status is cleared after 3000 ms
StatusWindow == 3

Uid(n) == <<"u1", "u2", "u3", "u4", "u5">>[n]
\* the user a custom token signs in (src/app.js line 114)
TokenUser == "token-user"
Users == {Uid(n) : n \in 1..MaxUsers} \cup {TokenUser}
\* part_000 builds paths from whatever userId holds, placeholders included;
\* src/app.js (lines 149, 186) would build .../users/null/... from no userId
Paths == Users \cup {"Anonymous", "null"}
\* the collections src/app.js binds (lines 1147, 1155) and seeds
Seeded == {"tasks", "habits"}
\* the collections part_000 listens to (lines 138, 152, 164) besides the
\* reflection document (line 176)
Listened == {"tasks", "habits", "routines"}
Collections == Listened \cup {"reflections"}
Mirrors == Listened
Bindings == Mirrors \cup {"reflection"}
ColOf(m) == IF m = "reflection" THEN "reflections" ELSE m

\* the calendar date of a wall-clock time (toISOString().split('T')[0])
DayOf(t) == t \div 2
\* a store Timestamp and its toDate()
Timestamp(t) == [ts |-> t]
ToDate(x) == x.ts

\* src/app.js:36-43 (the fields the views read)
initialTask ==
    [name |-> "Tugas Skripsi Bab 1", priority |-> "Penting - Mendesak",
     completed |-> FALSE]
\* src/app.js:45-51
initialHabit ==
    [name |-> "Minum 2 liter air", streak |-> 5, target |-> 7,
     checkedToday |-> FALSE]
\* src/app.js:248-255: a task entered in the add form
formTask ==
    [name |-> "Buy milk", priority |-> "Penting - Mendesak", completed |-> FALSE]

\* a document of the store: its store-assigned id and its fields
Doc(id, fields) == [id |-> id, data |-> fields]

IdsOf(docs) == {d.id : d \in docs}

\* snapshot.docs: the documents of a collection in the store's order (by id)
RECURSIVE SnapshotDocs(_)
SnapshotDocs(docs) ==
    IF docs = {} THEN <<>>
    ELSE LET first == CHOOSE d \in docs : \A e \in docs : d.id <= e.id
         IN <<first>> \o SnapshotDocs(docs \ {first})

-----------------------------------------------------------------------------
(* The store's listeners *)

\* a listener registered by onSnapshot on the collection of mirror m (day 0),
\* or on the reflection document of a day, under the path of a user; dirty:
\* a snapshot is on its way to the callback
NewStream(m, path, day) ==
    [mirror |-> m, path |-> path, day |-> day, dirty |-> TRUE,
     delivered |-> FALSE, failed |-> FALSE]

\* the unsubscribe function returned by onSnapshot for mirror m under path:
\* the listener is removed, and with it any snapshot on its way
Unsubscribe(ss, m, path) == {x \in ss : ~(x.mirror = m /\ x.path = path)}

\* a write to path/col: every registered listener of it has a snapshot coming
Notify(ss, path, col) ==
    {IF x.path = path /\ ColOf(x.mirror) = col /\ ~x.failed
     THEN [x EXCEPT !.dirty = TRUE] ELSE x : x \in ss}

-----------------------------------------------------------------------------
(* src/app.js useFirestoreCollection *)

\* lines 181: cleanup of the subscription effect
CleanupLeak(ss, m, path) == ss

Cleanup(ss, m, path) == Unsubscribe(ss, m, path)

\* an item built from the document's fields alone
AppItemNoId(doc) == doc.data

\* lines 158-161: doc => ({id: doc.id, ...doc.data()}); a field of the
\* document overrides an earlier key of the same name
AppItem(doc) == doc.data @@ [id |-> doc.id]

AppItems(docs) == [i \in DOMAIN docs |-> AppItem(docs[i])]

\* lines 144-182: one run of the subscription effect of mirror m, on
\* st = [streams, bound, mirror]
SubscriptionEffect(m, st) ==
    LET ss == Cleanup(st.streams, m, st.bound[m]) IN
    IF ~db \/ userId = "null"
    THEN [streams |-> ss,
          bound   |-> [st.bound EXCEPT ![m] = "none"],
          mirror  |-> [st.mirror EXCEPT ![m].loading = FALSE]]
    ELSE [streams |-> ss \cup {NewStream(m, userId, 0)},
          bound   |-> [st.bound EXCEPT ![m] = userId],
          mirror  |-> st.mirror]

\* addData without its first line
addDataUnguarded(c, item, id, st) ==
    [store   |-> [st.store EXCEPT ![userId][c] = @ \cup {Doc(id, item)}],
     streams |-> Notify(st.streams, userId, c)]

\* lines 184-188: addData(item), the store assigning `id`;
\* st = [store, streams]
addData(c, item, id, st) ==
    IF ~db \/ userId = "null" THEN st
    ELSE [store   |-> [st.store EXCEPT ![userId][c] = @ \cup {Doc(id, item)}],
          streams |-> Notify(st.streams, userId, c)]

\* the document replaced by the fields passed
MergeUpdateReplace(docs, id, fields) ==
    {IF d.id = id THEN [d EXCEPT !.data = fields] ELSE d : d \in docs}

\* updateDoc(ref, fields): the named fields are merged into the document;
\* the call rejects, writing nothing, when the document does not exist
MergeUpdate(docs, id, fields) ==
    {IF d.id = id THEN [d EXCEPT !.data = fields @@ @] ELSE d : d \in docs}

\* lines 190-195: the promise of updateData(id, item) rejects: updateDoc was
\* called (line 193) on a document that does not exist
updateRejects(c, id) ==
    /\ db /\ userId # "null"
    /\ id \notin IdsOf(store[userId][c])

\* lines 190-195: updateData(id, item)
updateData(c, id, fields, st) ==
    IF ~db \/ userId = "null" \/ id \notin IdsOf(st.store[userId][c]) THEN st
    ELSE [store   |-> [st.store EXCEPT ![userId][c] = MergeUpdate(@, id, fields)],
          streams |-> Notify(st.streams, userId, c)]

\* lines 197-202: deleteData(id)
deleteData(c, id, st) ==
    IF ~db \/ userId = "null" THEN st
    ELSE [store   |-> [st.store EXCEPT ![userId][c] = {d \in @ : d.id # id}],
          streams |-> Notify(st.streams, userId, c)]

-----------------------------------------------------------------------------
(* src/app.js App: the seeding effect *)

\* lines 1159 and 1163: the condition under which a default record is inserted
ShouldSeed(c) ==
    /\ isAuthReady
    /\ ~mirror[c].loading
    /\ Len(mirror[c].data) = 0
    /\ userId # "null"

\* the insert reaches the store (addData's own guard)
SeedWrites(c) == ShouldSeed(c) /\ db

\* line 1167: the dependency array (addTask and addHabit change with db, userId)
SeedDepsNow ==
    <<isAuthReady, mirror["tasks"].loading, mirror["habits"].loading,
      Len(mirror["tasks"].data), Len(mirror["habits"].data), db, userId>>

\* line 182 (src/app.js) and line 194 (part_000): dependencies of the
\* subscription effects
SubDepsNow ==
    IF variant = "app" THEN <<db, userId>> ELSE <<isAuthReady, userId, db>>

\* lines 1158-1166: both conditions of the effect, in order
SeedingEffect(id, st) ==
    LET st1 == IF ShouldSeed("tasks") THEN addData("tasks", initialTask, id, st) ELSE st
        hid == IF SeedWrites("tasks") THEN id + 1 ELSE id
    IN IF ShouldSeed("habits") THEN addData("habits", initialHabit, hid, st1) ELSE st1

-----------------------------------------------------------------------------
(* Initial state *)

\* documents a returning user may already hold
earlierTasks ==
    {Doc(1, [name |-> "Old task", priority |-> "Penting - Non-mendesak",
             completed |-> TRUE])}
earlierHabits ==
    {Doc(2, [name |-> "Old habit", streak |-> 2, target |-> 7,
             checkedToday |-> FALSE])}

EmptyStore == [p \in Paths |-> [c \in Collections |-> {}]]

\* part_000: one task written by handleAddTask and one without createdAt
partTasks ==
    {Doc(1, [title |-> "Read", completed |-> FALSE, createdAt |-> Timestamp(1),
             category |-> "Uncategorized"]),
     Doc(2, [title |-> "Imported", completed |-> FALSE])}
\* reflection documents are keyed by their day; `mood` is a field that
\* handleSaveReflection does not write
partReflections ==
    {Doc(DayOf(1), [content |-> "old", updatedAt |-> Timestamp(0), mood |-> "calm"])}

InitStores(v) ==
    {EmptyStore} \cup
    {[EmptyStore EXCEPT ![Uid(1)] =
        IF v = "app"
        THEN [@ EXCEPT !.tasks = earlierTasks, !.habits = earlierHabits]
        ELSE [@ EXCEPT !.tasks = partTasks, !.reflections = partReflections]]}

\* src/app.js: `first` is the sign-in of the mount effect (line 114 with a
\* custom token, else line 125), `second` the one of the auth callback (line
\* 102), `fallback` the one of line 119; part_000: `first` is lines 83-88
NoCalls == [first |-> "idle", second |-> "idle", fallback |-> "idle"]

\* lines 403-405: the state of a ReflectionView that has just been mounted
MountedView == [isSaving |-> FALSE, saveStatus |-> "null"]

\* the state of a freshly constructed App, before its mount effects
InitApp(v) ==
    /\ variant = v
    /\ reflectionView = MountedView
    /\ pending = <<>>
    /\ timers = <<>>
    /\ mounted = FALSE
    /\ db = FALSE
    /\ userId = (IF v = "app" THEN "null" ELSE "Authenticating...")
    /\ isAuthReady = FALSE
    /\ appError = FALSE
    /\ mirror = [m \in Mirrors |->
                   [data |-> <<>>, loading |-> (v = "app"), error |-> FALSE]]
    /\ dailyReflection = ""
    /\ bound = [m \in Bindings |-> "none"]
    /\ subDeps = <<>>
    /\ seedDeps = <<>>
    /\ authInit = FALSE
    /\ currentUser = "null"
    /\ calls = NoCalls
    /\ streams = {}
    /\ now = 1
    /\ seedCount = [p \in Paths |-> [c \in Seeded |-> 0]]
    /\ scenario = "start"
    /\ lastSnap = [m \in Mirrors |-> <<>>]
    /\ applied = [m \in Mirrors |-> "none"]
    /\ lastSave = [state |-> "none", content |-> "", flip |-> FALSE]
    /\ unhandled = FALSE

\* the binding layer left untouched (SpecHabit)
SyncIdle ==
    /\ InitApp("app")
    /\ configOk = TRUE
    /\ initialAuthToken = FALSE
    /\ persisted = "null"
    /\ nextUid = 1
    /\ store = EmptyStore
    /\ nextDocId = 1

\* lines 648-683: the activity ids of the five blocks of dailyRoutines
dailyRoutines ==
    << <<"p1", "p2", "p3", "p4", "p5", "p6", "p7", "p8">>,
       <<"s1", "s2", "s3", "s4", "s5">>,
       <<"r1", "r2", "r3", "r4">>,
       <<"n1", "n2", "n3", "n4">>,
       <<"bt1", "bt2", "bt3">> >>

\* line 686: useState(dailyRoutines.map(r => r.activities.map(a => a.id)))
\* and no call of handleCheck yet
RoutineMounted ==
    /\ checkedState = dailyRoutines
    /\ lastCheck = [invocations |-> 0]

\* src/app.js:36-43 with its subtasks (one subtask, named by its text)
seededTask ==
    [name |-> "Tugas Skripsi Bab 1", subtasks |-> <<"Cari 5 Jurnal">>,
     completed |-> FALSE]

\* TaskManager lists the seeded task; no form is open
TaskListed ==
    /\ taskDoc = seededTask
    /\ taskItem = taskDoc
    /\ editingTask = <<>>

\* lines 852, 857, 862: 25 * 60 and 5 * 60 seconds
FocusSeconds == 1500
BreakSeconds == 300

\* lines 851-853: FocusMode as mounted; no interval is registered
FocusMounted ==
    focus = [isPomodoro |-> TRUE, time |-> FocusSeconds, isActive |-> FALSE,
             interval |-> FALSE]

\* the pages with component-local state left untouched
PageIdle ==
    /\ dashboard = [tasks |-> <<>>, top3Priorities |-> <<>>, rendered |-> FALSE]
    /\ RoutineMounted
    /\ TaskListed
    /\ FocusMounted

\* the habit machine left untouched (Spec)
HabitIdle ==
    /\ habitDoc = [checkedToday |-> FALSE, streak |-> 0, lastChecked |-> 0]
    /\ habitItem = habitDoc
    /\ clock = 1
    /\ today = 1
    /\ trail = <<>>
    /\ editingHabit = <<>>

Init ==
    /\ HabitIdle
    /\ PageIdle
    /\ \E v \in {"app", "part"} : InitApp(v)
    /\ configOk \in BOOLEAN
    /\ initialAuthToken = FALSE
    /\ persisted \in {"null", Uid(1)}
    /\ nextUid = (IF persisted = "null" THEN 1 ELSE 2)
    /\ store \in (IF persisted = "null" THEN {EmptyStore} ELSE InitStores(variant))
    /\ nextDocId = 1 + Cardinality(UNION {IdsOf(store[p][c]) : p \in Paths, c \in Seeded})

\* src/app.js started with a custom token
InitToken ==
    /\ HabitIdle
    /\ PageIdle
    /\ InitApp("app")
    /\ configOk = TRUE
    /\ initialAuthToken = TRUE
    /\ persisted \in {"null", Uid(1)}
    /\ nextUid = (IF persisted = "null" THEN 1 ELSE 2)
    /\ store \in (IF persisted = "null" THEN {EmptyStore} ELSE InitStores(variant))
    /\ nextDocId = 1 + Cardinality(UNION {IdsOf(store[p][c]) : p \in Paths, c \in Seeded})

-----------------------------------------------------------------------------
(* src/app.js App: effects *)

\* every effect of the last render has run
EffectsFlushed ==
    /\ mounted
    /\ subDeps = SubDepsNow
    /\ variant = "app" => seedDeps = SeedDepsNow

\* the effects of one render of src/app.js App, in hook order: useFirebase
\* (mount only), the two subscription effects, the seeding effect
AppEffects ==
    /\ variant = "app"
    /\ ~EffectsFlushed
    /\ LET runSub  == ~mounted \/ subDeps # SubDepsNow
           runSeed == ~mounted \/ seedDeps # SeedDepsNow
           st0 == [streams |-> streams, bound |-> bound, mirror |-> mirror]
           st1 == IF runSub THEN SubscriptionEffect("tasks", st0) ELSE st0
           st2 == IF runSub THEN SubscriptionEffect("habits", st1) ELSE st1
           w0  == [store |-> store, streams |-> st2.streams]
           w1  == IF runSeed THEN SeedingEffect(nextDocId, w0) ELSE w0
           k   == [c \in Seeded |-> IF runSeed /\ SeedWrites(c) THEN 1 ELSE 0]
       IN /\ nextDocId + k["tasks"] + k["habits"] <= MaxDocs + 1
          /\ nextDocId' = nextDocId + k["tasks"] + k["habits"]
          /\ seedCount' = [p \in Paths |-> [c \in Seeded |->
                             seedCount[p][c] + (IF p = userId THEN k[c] ELSE 0)]]
          /\ store' = w1.store
          /\ streams' = w1.streams
          /\ bound' = st2.bound
          /\ mirror' = st2.mirror
    \* useFirebase, lines 84-134: with a configuration, db is set and the
    \* sign-in of line 114 (custom token) or of line 125 (anonymous) starts;
    \* either proceeds once the provider has restored its session
    /\ IF mounted THEN UNCHANGED <<db, calls>>
       ELSE /\ db' = configOk
            /\ calls' = IF configOk THEN [calls EXCEPT !.first = "waiting"] ELSE calls
    /\ mounted' = TRUE
    /\ subDeps' = SubDepsNow
    /\ seedDeps' = SeedDepsNow
    /\ UNCHANGED <<variant, configOk, initialAuthToken, userId, isAuthReady, appError, dailyReflection>>
    /\ UNCHANGED <<persisted, authInit, currentUser, nextUid, now>>
    /\ UNCHANGED <<scenario, lastSnap, applied, lastSave, unhandled>>
    /\ UNCHANGED <<habitVars, pageVars, viewVars>>

-----------------------------------------------------------------------------
(* src/app.js useFirebase: the identity session *)

\* the provider has restored its session: onAuthStateChanged reports it
\* (lines 97-110) and the sign-in of the mount effect proceeds
AppAuthRestored ==
    /\ variant = "app"
    /\ EffectsFlushed
    /\ db
    /\ ~authInit
    /\ authInit' = TRUE
    /\ currentUser' = persisted
    /\ IF persisted # "null"
       THEN \* callback(user): setUserId
            /\ userId' = persisted
            /\ IF initialAuthToken
               THEN \* the custom token is sent
                    /\ calls' = [calls EXCEPT !.first = "network"]
                    /\ UNCHANGED isAuthReady
               ELSE \* signInAnonymously returns the anonymous user already
                    \* signed in; finally: setIsAuthReady
                    /\ calls' = [calls EXCEPT !.first = "done"]
                    /\ isAuthReady' = TRUE
       ELSE \* callback(null) starts the sign-in of line 102 next to the one
            \* of the mount effect; anonymous calls sign up
            /\ calls' = [calls EXCEPT !.first = "network", !.second = "network"]
            /\ UNCHANGED <<userId, isAuthReady>>
    /\ UNCHANGED <<variant, configOk, initialAuthToken, mounted, db, appError, mirror, dailyReflection, bound, subDeps, seedDeps>>
    /\ UNCHANGED <<persisted, nextUid>>
    /\ UNCHANGED <<storeVars, obsVars, habitVars, pageVars, viewVars>>

\* the call is the custom-token sign-in of line 114
IsTokenCall(k) == initialAuthToken /\ k = "first"

\* a sign-in completes: the provider switches to the user (the token's user,
\* or a new anonymous one) and notifies the listener (line 99); then (lines
\* 103, 116) and finally (lines 107, 121, 126) follow
AppSignInSucceeds(k) ==
    /\ variant = "app"
    /\ EffectsFlushed
    /\ calls[k] = "network"
    /\ IsTokenCall(k) \/ nextUid <= MaxUsers
    /\ LET user == IF IsTokenCall(k) THEN TokenUser ELSE Uid(nextUid) IN
         /\ currentUser' = user
         /\ userId' = user
    /\ nextUid' = IF IsTokenCall(k) THEN nextUid ELSE nextUid + 1
    /\ isAuthReady' = (isAuthReady \/ k # "fallback")
    /\ calls' = [calls EXCEPT ![k] = "done"]
    /\ UNCHANGED <<variant, configOk, initialAuthToken, mounted, db, appError, mirror, dailyReflection, bound, subDeps, seedDeps>>
    /\ UNCHANGED <<persisted, authInit>>
    /\ UNCHANGED <<storeVars, obsVars, habitVars, pageVars, viewVars>>

\* the signed-in user is an anonymous one: signInAnonymously returns it
AnonymousSignedIn == currentUser \notin {"null", TokenUser}

\* a sign-in is rejected: catch logs it (and, for the custom token, calls
\* signInAnonymously, line 119), finally sets isAuthReady; nothing follows
\* the call of line 119
AppSignInFails(k) ==
    /\ variant = "app"
    /\ EffectsFlushed
    /\ calls[k] = "network"
    /\ isAuthReady' = (isAuthReady \/ k # "fallback")
    /\ calls' = IF IsTokenCall(k)
                THEN [calls EXCEPT !.first = "failed",
                                   !.fallback = IF AnonymousSignedIn THEN "done" ELSE "network"]
                ELSE [calls EXCEPT ![k] = "failed"]
    /\ UNCHANGED <<variant, configOk, initialAuthToken, mounted, db, userId, appError, mirror, dailyReflection, bound, subDeps, seedDeps>>
    /\ UNCHANGED <<persisted, authInit, currentUser, nextUid>>
    /\ UNCHANGED <<storeVars, obsVars, habitVars, pageVars, viewVars>>

-----------------------------------------------------------------------------
(* src/app.js useFirestoreCollection: snapshot callbacks *)

\* lines 157-174: a snapshot reaches the callback of listener x
AppSnapshot(x) ==
    /\ variant = "app"
    /\ EffectsFlushed
    /\ x.dirty /\ ~x.failed
    /\ LET m    == x.mirror
           snap == SnapshotDocs(store[x.path][m])
       IN /\ mirror' = [mirror EXCEPT ![m] =
                          [data |-> AppItems(snap), loading |-> FALSE, error |-> FALSE]]
          /\ lastSnap' = [lastSnap EXCEPT ![m] = snap]
          /\ applied' = [applied EXCEPT ![m] = x.path]
    /\ streams' = (streams \ {x}) \cup {[x EXCEPT !.dirty = FALSE, !.delivered = TRUE]}
    /\ UNCHANGED <<variant, configOk, initialAuthToken, mounted, db, userId, isAuthReady, appError, dailyReflection, bound, subDeps, seedDeps>>
    /\ UNCHANGED <<authVars, store, nextDocId, now, seedCount, scenario, lastSave, habitVars, pageVars, viewVars, unhandled>>

\* an error callback that also empties the list
onSnapshotErrorClears(mir) == [data |-> <<>>, loading |-> FALSE, error |-> TRUE]

\* lines 175-179: the error callback of onSnapshot: setError(e.message),
\* setLoading(false)
onSnapshotError(mir) == [mir EXCEPT !.error = TRUE, !.loading = FALSE]

\* lines 175-179: the stream of listener x fails; the store ends it
AppSnapshotError(x) ==
    /\ variant = "app"
    /\ EffectsFlushed
    /\ ~x.failed
    /\ Cardinality({y \in streams : y.failed}) < MaxErrors
    /\ mirror' = [mirror EXCEPT ![x.mirror] = onSnapshotError(@)]
    /\ streams' = (streams \ {x}) \cup {[x EXCEPT !.failed = TRUE, !.dirty = FALSE]}
    /\ UNCHANGED <<variant, configOk, initialAuthToken, mounted, db, userId, isAuthReady, appError, dailyReflection, bound, subDeps, seedDeps>>
    /\ UNCHANGED <<authVars, store, nextDocId, now, obsVars, habitVars, pageVars, viewVars>>

-----------------------------------------------------------------------------
(* src/app.js TaskManager and HabitTracker: the user's operations *)

\* src/app.js renderContent, lines 1182-1198: the spinner until isAuthReady
\* holds, then the page; there is no error screen
AppScreen == IF ~isAuthReady THEN "loading" ELSE "content"

\* the pages are rendered once isAuthReady holds (renderContent, line 1183)
AppUsable == variant = "app" /\ EffectsFlushed /\ isAuthReady

Write(w) == store' = w.store /\ streams' = w.streams

\* the user's operations so far are: none ("start"), one add of "Buy milk"
\* ("added"), that add and one toggle of "Buy milk" ("toggled"); else "off"
Follow(op, name) ==
    IF scenario = "start" /\ op = "add" THEN "added"
    ELSE IF scenario = "added" /\ op = "toggle" /\ name = formTask.name THEN "toggled"
    ELSE "off"

\* TaskManager.handleSave, lines 354-362, with no task being edited
AppAddTask ==
    /\ AppUsable
    /\ nextDocId <= MaxDocs
    /\ Write(addData("tasks", formTask, nextDocId, [store |-> store, streams |-> streams]))
    /\ nextDocId' = IF db /\ userId # "null" THEN nextDocId + 1 ELSE nextDocId
    /\ scenario' = Follow("add", formTask.name)
    /\ UNCHANGED <<appVars, authVars, now, seedCount, lastSnap, applied, lastSave, habitVars, pageVars, viewVars, unhandled>>

\* TaskManager.toggleCompletion, lines 364-366, on a task of the mirror
AppToggleCompletion(k) ==
    /\ AppUsable
    /\ k \in DOMAIN mirror["tasks"].data
    /\ LET task == mirror["tasks"].data[k] IN
         /\ Write(updateData("tasks", task.id, [completed |-> ~task.completed],
                             [store |-> store, streams |-> streams]))
         /\ scenario' = Follow("toggle", task.name)
         \* updateData awaits updateDoc without a catch and toggleCompletion
         \* drops the promise of updateTask
         /\ unhandled' = (unhandled \/ updateRejects("tasks", task.id))
    /\ UNCHANGED <<appVars, authVars, nextDocId, now, seedCount, lastSnap, applied, lastSave, habitVars, pageVars, viewVars>>

\* the delete confirmation of TaskManager (line 479) and HabitTracker (line 632)
AppDelete(c, k) ==
    /\ AppUsable
    /\ k \in DOMAIN mirror[c].data
    /\ Write(deleteData(c, mirror[c].data[k].id, [store |-> store, streams |-> streams]))
    /\ scenario' = Follow("delete", mirror[c].data[k].name)
    /\ UNCHANGED <<appVars, authVars, nextDocId, now, seedCount, lastSnap, applied, lastSave, habitVars, pageVars, viewVars, unhandled>>

\* Dashboard, lines 751-752 and 757: the counts shown for the tasks prop
completedCount(tasks) == Len(SelectSeq(tasks, LAMBDA t : t.completed))
totalTasks(tasks) == Len(tasks)
pendingCount(tasks) == Len(SelectSeq(tasks, LAMBDA t : ~t.completed))

NextApp ==
    \/ AppEffects
    \/ AppAuthRestored
    \/ \E k \in DOMAIN NoCalls : AppSignInSucceeds(k)
    \/ \E k \in DOMAIN NoCalls : AppSignInFails(k)
    \/ \E x \in streams : AppSnapshot(x)
    \/ \E x \in streams : AppSnapshotError(x)
    \/ AppAddTask
    \/ \E k \in 1..MaxDocs : AppToggleCompletion(k)
    \/ \E c \in Seeded, k \in 1..MaxDocs : AppDelete(c, k)

-----------------------------------------------------------------------------
(* src/unnamed/part_000 App *)

\* line 192: listeners.forEach(unsubscribe => unsubscribe())
PartCleanup(ss, b) == {x \in ss : x.path # b[x.mirror]}

\* lines 129-194: one run of the data-listener effect on st = [streams, bound]
ListenersEffect(st) ==
    LET ss == PartCleanup(st.streams, st.bound)
    IN IF ~isAuthReady \/ userId = "Authenticating..." \/ ~db
       THEN [streams |-> ss, bound |-> [m \in Bindings |-> "none"]]
       ELSE [streams |-> ss \cup {NewStream(m, userId, 0) : m \in Listened}
                            \cup {NewStream("reflection", userId, DayOf(now))},
             bound   |-> [m \in Bindings |-> userId]]

\* lines 141-146: {id: doc.id, ...doc.data(), createdAt: <Date>}; a document
\* without a createdAt timestamp gets the time of the callback
PartTaskItem(doc, t) ==
    [createdAt |-> IF "createdAt" \in DOMAIN doc.data
                   THEN ToDate(doc.data.createdAt) ELSE t]
        @@ doc.data @@ [id |-> doc.id]

PartTaskItems(docs, t) == [i \in DOMAIN docs |-> PartTaskItem(docs[i], t)]

\* lines 178-182: the reflection document of the listener's day
PartReflectionContent(docs, day) ==
    IF \E d \in docs : d.id = day
    THEN (CHOOSE d \in docs : d.id = day).data.content
    ELSE ""

\* the effects of one render of part_000 App: setupAuth (mount only, lines
\* 60-126) and the data listeners
PartEffects ==
    /\ variant = "part"
    /\ ~EffectsFlushed
    /\ IF mounted THEN UNCHANGED <<db, calls, appError>>
       ELSE IF ~configOk
            THEN appError' = TRUE /\ UNCHANGED <<db, calls>>
            ELSE /\ db' = TRUE
                 /\ calls' = [calls EXCEPT !.first = "network"]
                 /\ UNCHANGED appError
    /\ LET st == ListenersEffect([streams |-> streams, bound |-> bound])
       IN streams' = st.streams /\ bound' = st.bound
    /\ mounted' = TRUE
    /\ subDeps' = SubDepsNow
    /\ UNCHANGED <<variant, configOk, initialAuthToken, userId, isAuthReady, mirror, dailyReflection, seedDeps>>
    /\ UNCHANGED <<persisted, authInit, currentUser, nextUid>>
    /\ UNCHANGED <<store, nextDocId, now, obsVars, habitVars, pageVars, viewVars>>

\* lines 83-99: the awaited sign-in resolves (with the restored anonymous
\* user, or a new one); the auth listener is registered and reports the user
PartSignInSucceeds ==
    /\ variant = "part"
    /\ EffectsFlushed
    /\ calls.first = "network"
    /\ LET uid == IF persisted # "null" THEN persisted ELSE Uid(nextUid) IN
         /\ currentUser' = uid
         /\ userId' = uid
    /\ nextUid' = IF persisted # "null" THEN nextUid ELSE nextUid + 1
    /\ authInit' = TRUE
    /\ isAuthReady' = TRUE
    /\ calls' = [calls EXCEPT !.first = "done"]
    /\ UNCHANGED <<variant, configOk, initialAuthToken, mounted, db, appError, mirror, dailyReflection, bound, subDeps, seedDeps>>
    /\ UNCHANGED persisted
    /\ UNCHANGED <<storeVars, obsVars, habitVars, pageVars, viewVars>>

\* a catch block that also reports the authentication as ready
setupAuthCatchReady(st) == [error |-> TRUE, isAuthReady |-> TRUE]

\* lines 104-108: the catch block of setupAuth on st = [error, isAuthReady]:
\* setError, setLoadingMessage
setupAuthCatch(st) == [st EXCEPT !.error = TRUE]

\* lines 83-88, 104-108: the awaited sign-in is rejected
PartSignInFails ==
    /\ variant = "part"
    /\ EffectsFlushed
    /\ calls.first = "network"
    /\ LET st == setupAuthCatch([error |-> appError, isAuthReady |-> isAuthReady])
       IN appError' = st.error /\ isAuthReady' = st.isAuthReady
    /\ calls' = [calls EXCEPT !.first = "failed"]
    /\ UNCHANGED <<variant, configOk, initialAuthToken, mounted, db, userId, mirror, dailyReflection, bound, subDeps, seedDeps>>
    /\ UNCHANGED <<persisted, authInit, currentUser, nextUid>>
    /\ UNCHANGED <<storeVars, obsVars, habitVars, pageVars, viewVars>>

\* lines 91-99: the provider reports that no user is signed in any more
PartSignedOut ==
    /\ variant = "part"
    /\ EffectsFlushed
    /\ calls.first = "done"
    /\ currentUser # "null"
    /\ currentUser' = "null"
    /\ userId' = "Anonymous"
    /\ isAuthReady' = TRUE
    /\ UNCHANGED <<variant, configOk, initialAuthToken, mounted, db, appError, mirror, dailyReflection, bound, subDeps, seedDeps>>
    /\ UNCHANGED <<persisted, authInit, calls, nextUid>>
    /\ UNCHANGED <<storeVars, obsVars, habitVars, pageVars, viewVars>>

\* lines 402-405: ReflectionView is declared in the body of App, so each
\* render of App makes a new component type: the mounted ReflectionView is
\* replaced by a new one, with the initial state
Remount(view) == MountedView

\* the handleSave calls in flight belong to a ReflectionView that is gone
Orphan(calls_) == [i \in DOMAIN calls_ |-> [calls_[i] EXCEPT !.mounted = FALSE]]

\* lines 140-183: a snapshot reaches the callback of listener x
PartSnapshot(x) ==
    /\ variant = "part"
    /\ EffectsFlushed
    /\ x.dirty /\ ~x.failed
    /\ LET m    == x.mirror
           docs == store[x.path][ColOf(m)]
           snap == SnapshotDocs(docs)
       IN IF m = "reflection"
          THEN /\ dailyReflection' = PartReflectionContent(docs, x.day)
               /\ UNCHANGED <<mirror, lastSnap, applied>>
          ELSE /\ mirror' = [mirror EXCEPT ![m].data =
                               IF m = "tasks" THEN PartTaskItems(snap, now)
                               ELSE AppItems(snap)]
               /\ lastSnap' = [lastSnap EXCEPT ![m] = snap]
               /\ applied' = [applied EXCEPT ![m] = x.path]
               /\ UNCHANGED dailyReflection
    /\ streams' = (streams \ {x}) \cup {[x EXCEPT !.dirty = FALSE, !.delivered = TRUE]}
    \* setTasks, setHabits, setRoutines get a new array, setDailyReflection a
    \* string: App renders again unless the string is the one it holds
    /\ IF x.mirror = "reflection" /\ dailyReflection' = dailyReflection
       THEN UNCHANGED viewVars
       ELSE /\ reflectionView' = Remount(reflectionView)
            /\ pending' = Orphan(pending)
            /\ timers' = <<>>
    /\ UNCHANGED <<variant, configOk, initialAuthToken, mounted, db, userId, isAuthReady, appError, bound, subDeps, seedDeps>>
    /\ UNCHANGED <<authVars, store, nextDocId, now, seedCount, scenario, lastSave, habitVars, pageVars, unhandled>>

\* part_000 renderContent, lines 263-301: the error panel, else the spinner,
\* else the view; loadingMessage is null exactly once isAuthReady holds
PartScreen ==
    IF appError THEN "error"
    ELSE IF ~isAuthReady \/ ~db THEN "loading"
    ELSE "content"

Screen == IF variant = "app" THEN AppScreen ELSE PartScreen

\* the views are rendered when no error is set and auth is ready (lines 263-301)
PartUsable == variant = "part" /\ EffectsFlushed /\ ~appError /\ isAuthReady /\ db

\* setDoc(ref, fields, {merge: true}): fields are merged into the document
\* of that id, which is created when missing
MergeSetOverwrite(docs, id, fields) == {d \in docs : d.id # id} \cup {Doc(id, fields)}

MergeSet(docs, id, fields) ==
    IF id \in IdsOf(docs) THEN MergeUpdate(docs, id, fields)
    ELSE docs \cup {Doc(id, fields)}

\* lines 204-219: handleAddTask(title); ok: the store accepts the write
PartAddTask(ok) ==
    /\ PartUsable
    /\ nextDocId <= MaxDocs
    /\ IF ok
       THEN /\ store' = [store EXCEPT ![userId]["tasks"] = @ \cup
                           {Doc(nextDocId, [title |-> "Buy milk", completed |-> FALSE,
                                            createdAt |-> Timestamp(now),
                                            category |-> "Uncategorized"])}]
            /\ streams' = Notify(streams, userId, "tasks")
            /\ nextDocId' = nextDocId + 1
            /\ UNCHANGED appError
       ELSE /\ appError' = TRUE
            /\ UNCHANGED <<store, streams, nextDocId>>
    /\ UNCHANGED <<variant, configOk, initialAuthToken, mounted, db, userId, isAuthReady, mirror, dailyReflection, bound, subDeps, seedDeps>>
    /\ UNCHANGED <<authVars, now, obsVars, habitVars, pageVars, viewVars>>

\* lines 221-232: handleToggleTask(task.id, task.completed) from a TaskItem
PartToggleTask(k) ==
    /\ PartUsable
    /\ k \in DOMAIN mirror["tasks"].data
    /\ LET task == mirror["tasks"].data[k] IN
         IF task.id \in IdsOf(store[userId]["tasks"])
         THEN /\ store' = [store EXCEPT ![userId]["tasks"] =
                             MergeUpdate(@, task.id, [completed |-> ~task.completed])]
              /\ streams' = Notify(streams, userId, "tasks")
              /\ UNCHANGED appError
         ELSE /\ appError' = TRUE
              /\ UNCHANGED <<store, streams>>
    /\ UNCHANGED <<variant, configOk, initialAuthToken, mounted, db, userId, isAuthReady, mirror, dailyReflection, bound, subDeps, seedDeps>>
    /\ UNCHANGED <<authVars, nextDocId, now, obsVars, habitVars, pageVars, viewVars>>

\* lines 234-247: handleSaveReflection(content); ok: the store accepts the write
PartSaveReflection(content, ok) ==
    /\ PartUsable
    /\ LET day  == DayOf(now)
           call == [content |-> content, flip |-> ~lastSave.flip]
       IN
       IF content = ""
       THEN /\ lastSave' = [state |-> "skipped"] @@ call
            /\ UNCHANGED <<store, streams, appError>>
       ELSE IF ok
       THEN /\ store' = [store EXCEPT ![userId]["reflections"] =
                           MergeSet(@, day, [content |-> content, updatedAt |-> Timestamp(now)])]
            /\ streams' = Notify(streams, userId, "reflections")
            /\ lastSave' = [state |-> "written"] @@ call
            /\ UNCHANGED appError
       ELSE /\ appError' = TRUE
            /\ lastSave' = [state |-> "rejected"] @@ call
            /\ UNCHANGED <<store, streams>>
    /\ UNCHANGED <<variant, configOk, initialAuthToken, mounted, db, userId, isAuthReady, mirror, dailyReflection, bound, subDeps, seedDeps>>
    /\ UNCHANGED <<authVars, nextDocId, now, seedCount, scenario, lastSnap, applied, habitVars, pageVars, viewVars, unhandled>>

\* line 421: setTimeout(() => setSaveStatus(null), 3000); the timers of a
\* view that is gone have no effect and are not followed
SetTimer(ts) == Append(ts, 0)

\* lines 411-423 with 234-247: the `Simpan Refleksi` button (enabled while
\* isSaving is false) is clicked with `content` in the text area. Empty text:
\* handleSaveReflection returns at once and handleSave runs to its end. Else
\* the write is sent (document of today, updatedAt: new Date()) and awaited.
ReflectionSave(content) ==
    /\ PartUsable
    /\ ~reflectionView.isSaving
    /\ IF content = ""
       THEN /\ Len(timers) < MaxTimers
            /\ reflectionView' = [isSaving |-> FALSE, saveStatus |-> "Tersimpan!"]
            /\ timers' = SetTimer(timers)
            /\ lastSave' = [state |-> "skipped", content |-> content, flip |-> ~lastSave.flip]
            /\ UNCHANGED pending
       ELSE /\ Len(pending) < MaxPending
            /\ reflectionView' = [isSaving |-> TRUE, saveStatus |-> "null"]
            /\ pending' = Append(pending, [content |-> content, path |-> userId,
                                           day |-> DayOf(now), at |-> now, mounted |-> TRUE])
            /\ UNCHANGED <<lastSave, timers>>
    /\ UNCHANGED <<appVars, authVars, storeVars, habitVars, pageVars>>
    /\ UNCHANGED <<seedCount, scenario, lastSnap, applied, unhandled>>

\* what is left of handleSave (lines 416-422) once onSave has returned:
\* handleSaveReflection never throws, so the catch of line 417 is not taken;
\* the state of a ReflectionView that is gone cannot be set
AfterSave(view, call) ==
    IF call.mounted THEN [isSaving |-> FALSE, saveStatus |-> "Tersimpan!"] ELSE view

\* lines 239-246 and 416-422: the write of the i-th call in flight is accepted
\* (ok) or rejected by the store; a rejection sets the error of App (line
\* 245), whose error panel replaces the view
ReflectionWriteDone(i, ok) ==
    /\ variant = "part"
    /\ EffectsFlushed
    /\ i \in DOMAIN pending
    /\ (ok /\ pending[i].mounted) => Len(timers) < MaxTimers
    /\ LET call == pending[i]
           rest == SubSeq(pending, 1, i - 1) \o SubSeq(pending, i + 1, Len(pending))
       IN /\ lastSave' = [state |-> IF ok THEN "written" ELSE "rejected",
                         content |-> call.content, flip |-> ~lastSave.flip]
          /\ IF ok
             THEN /\ store' = [store EXCEPT ![call.path]["reflections"] =
                                 MergeSet(@, call.day, [content |-> call.content,
                                                        updatedAt |-> Timestamp(call.at)])]
                  /\ streams' = Notify(streams, call.path, "reflections")
                  /\ reflectionView' = AfterSave(reflectionView, call)
                  /\ timers' = IF call.mounted THEN SetTimer(timers) ELSE timers
                  /\ pending' = rest
                  /\ UNCHANGED appError
             ELSE /\ appError' = TRUE
                  /\ reflectionView' = Remount(reflectionView)
                  /\ pending' = Orphan(rest)
                  /\ timers' = <<>>
                  /\ UNCHANGED <<store, streams>>
    /\ UNCHANGED <<variant, configOk, initialAuthToken, mounted, db, userId, isAuthReady, mirror, dailyReflection, bound, subDeps, seedDeps>>
    /\ UNCHANGED <<authVars, nextDocId, now, seedCount, scenario, lastSnap, applied, habitVars, pageVars, unhandled>>

\* line 421: the oldest timer is due; its callback clears the status,
\* whichever save has set it
StatusExpires ==
    /\ variant = "part"
    /\ timers # <<>>
    /\ Head(timers) = StatusWindow
    /\ reflectionView' = [reflectionView EXCEPT !.saveStatus = "null"]
    /\ timers' = Tail(timers)
    /\ UNCHANGED <<appVars, authVars, storeVars, obsVars, habitVars, pageVars, pending>>

\* a second passes with no timer due
SecondPasses ==
    /\ variant = "part"
    /\ timers # <<>>
    /\ \A i \in DOMAIN timers : timers[i] < StatusWindow
    /\ timers' = [i \in DOMAIN timers |-> timers[i] + 1]
    /\ UNCHANGED <<appVars, authVars, storeVars, obsVars, habitVars, pageVars, reflectionView, pending>>

\* lines 431-434: the user types in the text area while a status is shown
EditText ==
    /\ PartUsable
    /\ reflectionView.saveStatus # "null"
    /\ reflectionView' = [reflectionView EXCEPT !.saveStatus = "null"]
    /\ UNCHANGED <<appVars, authVars, storeVars, obsVars, habitVars, pageVars, pending, timers>>

\* the comparator with its operands exchanged
createdAtAscending(a, b) == a.createdAt - b.createdAt

\* lines 345-346: (a, b) => (b.createdAt || 0) - (a.createdAt || 0); the
\* mirrored createdAt is always a Date, which is truthy
createdAtDescending(a, b) == b.createdAt - a.createdAt

\* Array.prototype.sort(compare) is stable: x goes behind every element that
\* the comparator does not place after it
InsertSorted(sorted, x) ==
    LET k == Cardinality({i \in DOMAIN sorted : createdAtDescending(sorted[i], x) <= 0})
    IN SubSeq(sorted, 1, k) \o <<x>> \o SubSeq(sorted, k + 1, Len(sorted))

RECURSIVE SortTasks(_)
SortTasks(tasks) ==
    IF tasks = <<>> THEN <<>>
    ELSE InsertSorted(SortTasks(SubSeq(tasks, 1, Len(tasks) - 1)), tasks[Len(tasks)])

\* lines 345-346 (TaskManagerView) and 325 (DashboardView)
pendingTasks(tasks) == SortTasks(SelectSeq(tasks, LAMBDA t : ~t.completed))
completedTasks(tasks) == SortTasks(SelectSeq(tasks, LAMBDA t : t.completed))

\* the wall clock advances
Tick ==
    /\ variant = "part"
    /\ now < MaxTime
    /\ now' = now + 1
    /\ UNCHANGED <<appVars, authVars, store, nextDocId, streams, obsVars, habitVars, pageVars, viewVars>>

Texts == {"", "A", "B"}

\* part_000 while the user stays signed in: sign-in, listeners, snapshots
PartSession ==
    \/ PartEffects
    \/ PartSignInSucceeds
    \/ PartSignInFails
    \/ \E x \in streams : PartSnapshot(x)
    \/ Tick

\* part_000 up to the data listeners, the provider ending the session included
NextPart == PartSession \/ PartSignedOut

\* either variant of the application, bound to the store
Next == NextApp \/ NextPart

Spec == Init /\ [][Next]_vars

InitPart == Init /\ variant = "part"

\* part_000 with the user working in the Task Manager view
NextTasks ==
    \/ PartSession
    \/ \E ok \in BOOLEAN : PartAddTask(ok)
    \/ \E k \in 1..MaxDocs : PartToggleTask(k)

SpecTasks == InitPart /\ [][NextTasks]_vars

\* part_000 with the user working in the Reflection view
NextReflection ==
    \/ PartSession
    \/ \E content \in Texts, ok \in BOOLEAN : PartSaveReflection(content, ok)

SpecReflection == InitPart /\ [][NextReflection]_vars

\* part_000 with the user working in the Reflection view within one day,
\* each save seen from the click to the end of its write
NextSaving ==
    \/ PartEffects
    \/ PartSignInSucceeds
    \/ PartSignInFails
    \/ \E x \in streams : PartSnapshot(x)
    \/ \E content \in {"", "A"} : ReflectionSave(content)
    \/ \E i \in 1..MaxPending, ok \in BOOLEAN : ReflectionWriteDone(i, ok)
    \/ StatusExpires
    \/ SecondPasses
    \/ EditText

SpecSaving == InitPart /\ [][NextSaving]_vars

\* src/app.js started with a custom token
SpecToken == InitToken /\ [][NextApp]_vars

\* the task handlers of both variants
NextWrites == NextApp \/ NextTasks

SpecWrites == Init /\ [][NextWrites]_vars

-----------------------------------------------------------------------------
(* Claims on seeding (src/app.js) *)

\* the step issues a default insert into collection c of user path p
SeedIssued(p, c) == seedCount'[p][c] > seedCount[p][c]

\* the listener of mirror m under the current binding, if registered
Current(m) == {x \in streams : x.mirror = m /\ x.path = bound[m]}

\* C3: for each collection the seeding effect inserts at most one default
\* record for a user during the session, under every interleaving of auth
\* events, snapshot deliveries and the user's adds and deletes.
C3_SeedsOnce == \A p \in Paths, c \in Seeded : seedCount[p][c] <= 1

\* C4: a default record is inserted into a collection only after the first
\* snapshot of the current user's subscription has been applied to that
\* mirror, and never into a collection that is non-empty in the store.
C4_SeedsAfterFirstSnapshot ==
    [][\A p \in Paths, c \in Seeded :
          SeedIssued(p, c) =>
              /\ \E x \in streams : x.mirror = c /\ x.path = p /\ x.delivered
              /\ store[p][c] = {}]_vars

\* the tasks mirror shows the store's tasks of the user: the first snapshot
\* has been applied and none is on its way
TasksInSync ==
    \E x \in Current("tasks") : x.path = userId /\ x.delivered /\ ~x.dirty /\ ~x.failed

\* C10: a new anonymous user whose empty tasks collection was bound and
\* seeded sees exactly 1 item; after adding one task, 2 items, 2 pending and
\* 0 completed; after completing that task, 1 completed and 1 pending; pending
\* and completed always add up to the number of mirrored tasks.
C10_EndToEnd ==
    LET tasks == mirror["tasks"].data IN
    (/\ variant = "app"
     /\ persisted = "null"
     /\ userId = Uid(1) /\ nextUid = 2
     /\ seedCount[Uid(1)]["tasks"] >= 1
     /\ TasksInSync)
    => /\ scenario = "start" => totalTasks(tasks) = 1
       /\ scenario = "added" =>
            totalTasks(tasks) = 2 /\ pendingCount(tasks) = 2 /\ completedCount(tasks) = 0
       /\ scenario = "toggled" =>
            completedCount(tasks) = 1 /\ pendingCount(tasks) = 1
       /\ pendingCount(tasks) + completedCount(tasks) = totalTasks(tasks)

-----------------------------------------------------------------------------
(* Claims on the subscriptions and the mirrors (both variants) *)

\* mirror m is bound and the last snapshot applied to it came from another path
Rebound(m) == bound[m] # "none" /\ applied[m] \notin {"none", bound[m]}

\* C5: a rebind unsubscribes the listeners of the previous binding before it
\* registers those of the new one: at most one listener is registered per
\* mirror, every registered listener belongs to the current binding, and a
\* snapshot that updates a mirror comes from the listener of its binding.
C5_RebindTeardown ==
    [][/\ \A m \in Bindings : Cardinality({x \in streams' : x.mirror = m}) <= 1
       /\ \A x \in streams' : x.path = bound'[x.mirror]
       /\ \A m \in Mirrors :
            (mirror'[m].data # mirror[m].data \/ applied'[m] # applied[m])
                => applied'[m] = bound[m]]_vars

\* a mirror was rebound to a second identity and shows that identity's snapshot
C5_Witness ==
    \E m \in Mirrors :
        /\ bound[m] \in {Uid(2), "Anonymous"}
        /\ applied[m] = bound[m]
        /\ \E x \in streams : x.mirror = m /\ x.delivered

\* the first snapshot of the current subscription of mirror m has been applied
Delivered(m) == \E x \in Current(m) : x.delivered

\* a field of a document as the client library hands it over
Deserialised(f, v) == IF f = "createdAt" THEN ToDate(v) ELSE v

\* item is the document with its fields, and its id; `more`: fields the item
\* may carry besides
ItemOf(item, doc, more) ==
    /\ "id" \in DOMAIN item
    /\ item.id = doc.id
    /\ DOMAIN doc.data \cup {"id"} \subseteq DOMAIN item
    /\ DOMAIN item \subseteq DOMAIN doc.data \cup {"id"} \cup more
    /\ \A f \in DOMAIN doc.data : item[f] = Deserialised(f, doc.data[f])

\* items of mirror m: one per document of the last snapshot, in its order
ItemsOf(m, more) ==
    /\ Len(mirror[m].data) = Len(lastSnap[m])
    /\ \A i \in DOMAIN lastSnap[m] : ItemOf(mirror[m].data[i], lastSnap[m][i], more)

\* a step that changes the items of m applies a snapshot of a listener of m
OnlySnapshotsChangeItems ==
    \A m \in Mirrors :
        mirror'[m].data # mirror[m].data =>
            \E x \in streams : x.mirror = m /\ x.dirty /\ x \notin streams'

\* C6 (as stated): once the first snapshot of a subscription is delivered, the
\* items of the mirror are exactly the documents of the last delivered
\* snapshot, each with its store-assigned id.
C6_MirrorEqualsSnapshot ==
    \A m \in Mirrors : Delivered(m) => ItemsOf(m, {})

\* C6 (amended): the same, except that a task item of part_000 carries a
\* createdAt even when its document has none; and only the delivery of a
\* snapshot changes the items, never add, update or remove.
C6_MirrorEqualsSnapshotButCreatedAt ==
    [][/\ \A m \in Mirrors :
            Delivered(m)' =>
                ItemsOf(m, IF variant = "part" /\ m = "tasks" THEN {"createdAt"} ELSE {})'
       /\ OnlySnapshotsChangeItems]_vars

\* part_000 shows, after the first snapshot of its tasks listener, a task
\* whose document has no createdAt, next to one whose document has
C6_Witness ==
    /\ variant = "part"
    /\ Delivered("tasks")
    /\ \E i, j \in DOMAIN lastSnap["tasks"] :
         /\ "createdAt" \notin DOMAIN lastSnap["tasks"][i].data
         /\ "createdAt" \in DOMAIN mirror["tasks"].data[i]
         /\ "createdAt" \in DOMAIN lastSnap["tasks"][j].data

\* C7: after a mirror is rebound to another user identifier, until the first
\* snapshot of the new subscription its items are empty and (src/app.js) its
\* loading flag is true; it never shows the previous user's records.
C7_MirrorDestroyedOnTeardown ==
    \A m \in Mirrors :
        Rebound(m) =>
            /\ mirror[m].data = <<>>
            /\ variant = "app" => mirror[m].loading

-----------------------------------------------------------------------------
(* Claims on the task lists of part_000 *)

-----------------------------------------------------------------------------
(* Claims on the reflection document of part_000 *)

\* the step is a call of handleSaveReflection
SaveCalled == lastSave'.flip # lastSave.flip

\* the reflection document of user path p for the day, as a set
DayDoc(st, p, day) == {d \in st[p]["reflections"] : d.id = day}

\* every step leaves alone the reflections of other users, the documents of
\* other days and, in the day's document, every field but content and
\* updatedAt; a document it creates has these two fields; only a save writes
MergeWriteFrame ==
    LET day == DayOf(now) IN
    \A p \in Paths :
        LET old == store[p]["reflections"]
            new == store'[p]["reflections"]
        IN /\ (p # userId \/ ~SaveCalled) => new = old
           /\ {d \in new : d.id # day} = {d \in old : d.id # day}
           /\ \A e \in new, f \in new : e.id = f.id => e = f
           /\ \A d \in DayDoc(store, p, day) :
                \E e \in DayDoc(store', p, day) :
                    /\ DOMAIN e.data = DOMAIN d.data \cup {"content", "updatedAt"}
                    /\ \A f \in DOMAIN d.data \ {"content", "updatedAt"} :
                         e.data[f] = d.data[f]
           /\ DayDoc(store, p, day) = {} =>
                \A e \in DayDoc(store', p, day) :
                    DOMAIN e.data = {"content", "updatedAt"}

\* after the call, the day's document of the user holds the content passed
SavedContent ==
    \E e \in DayDoc(store', userId, DayOf(now)) : e.data.content = lastSave'.content

\* C9 (as stated): a save writes content and updatedAt only, merged into the
\* one document of today; other fields, other days and other users are
\* unchanged, and the document's content is that of the latest save (the
\* store accepting the write).
C9_MergeWriteIsolation ==
    [][/\ MergeWriteFrame
       /\ (SaveCalled /\ lastSave'.state # "rejected") => SavedContent]_vars

\* C9 (amended): the same, the content being that of the latest save of a
\* non-empty text; a save of the empty text writes nothing.
C9_MergeWriteIsolationNonEmpty ==
    [][/\ MergeWriteFrame
       /\ (SaveCalled /\ lastSave'.state = "written") => SavedContent
       /\ (SaveCalled /\ lastSave'.content = "") => store' = store]_vars

\* today's document, which holds a field the save does not write, has been
\* saved to twice, last with the text "B"
C9_Witness ==
    /\ lastSave = [state |-> "written", content |-> "B", flip |-> FALSE]
    /\ \E d \in DayDoc(store, userId, DayOf(now)) :
         /\ d.data.content = "B"
         /\ "mood" \in DOMAIN d.data
         /\ d.data.updatedAt = Timestamp(now)

-----------------------------------------------------------------------------
(* Claims on the write handlers (both variants) *)

\* the documents of path p, collection c that the step leaves in place with
\* other fields
Rewritten(p, c) ==
    {d \in store[p][c] : \E e \in store'[p][c] : e.id = d.id /\ e # d}

\* C11: a step that rewrites a task document is one merge-update under the
\* path of the current user: it rewrites that one document, keeps its field
\* names and every field but completed, sets completed to the negation of
\* the value the mirrored task shows, and leaves every other document alone.
C11_UpdateMergesNamedFields ==
    [][\A p \in Paths :
          \A d \in Rewritten(p, "tasks") :
              LET e == CHOOSE x \in store'[p]["tasks"] : x.id = d.id IN
              /\ p = userId
              /\ store' = [store EXCEPT ![p]["tasks"] = (@ \ {d}) \cup {e}]
              /\ DOMAIN e.data = DOMAIN d.data
              /\ \A f \in DOMAIN d.data \ {"completed"} : e.data[f] = d.data[f]
              /\ \E k \in DOMAIN mirror["tasks"].data :
                    /\ mirror["tasks"].data[k].id = d.id
                    /\ e.data.completed = ~mirror["tasks"].data[k].completed]_vars

\* src/app.js: a seeded task has been completed, its other fields kept,
\* another task being stored next to it; the mirror still shows it pending
C11_Witness ==
    /\ variant = "app"
    /\ userId \in Users
    /\ \E d, o \in store[userId]["tasks"] :
         /\ d.data = [initialTask EXCEPT !.completed = TRUE]
         /\ o.id # d.id
         /\ \E k \in DOMAIN mirror["tasks"].data :
              mirror["tasks"].data[k] = AppItem(Doc(d.id, initialTask))

\* the stream of listener x reports an error in this step
ErrorReported(x) ==
    /\ ~x.failed
    /\ x \notin streams'
    /\ \E y \in streams' : y.mirror = x.mirror /\ y.path = x.path /\ y.failed

Listening(ss) == {<<y.mirror, y.path>> : y \in ss}

\* C14: in a step in which the stream of one mirror reports an error, that
\* mirror's error is set and its loading is false, its items are unchanged, no
\* listener is registered, and the other mirror is unchanged.
C14_SubscriptionErrorContained ==
    [][\A x \in streams :
          ErrorReported(x) =>
             /\ mirror'[x.mirror].error /\ ~mirror'[x.mirror].loading
             /\ mirror'[x.mirror].data = mirror[x.mirror].data
             /\ \A m \in Mirrors \ {x.mirror} : mirror'[m] = mirror[m]
             /\ Listening(streams') = Listening(streams)
             /\ bound' = bound]_vars

\* src/app.js: the tasks stream has failed after a snapshot with a task was
\* applied; the tasks are still listed, the habits mirror shows its habits
\* without an error
C14_Witness ==
    /\ variant = "app"
    /\ \E x \in streams : x.mirror = "tasks" /\ x.failed /\ x.path = userId
    /\ mirror["tasks"].error /\ ~mirror["tasks"].loading
    /\ mirror["tasks"].data # <<>>
    /\ ~mirror["habits"].error /\ mirror["habits"].data # <<>>

\* the status shown is cleared in this step
StatusCleared ==
    reflectionView.saveStatus # "null" /\ reflectionView'.saveStatus = "null"

\* C21: a status that is shown is cleared only by the user editing the text,
\* by the user starting another save, or by the timer that was set with it
\* (the youngest one), after the full window.
C21_StatusWindow ==
    [][StatusCleared =>
          \/ Len(pending') > Len(pending)
          \/ UNCHANGED <<timers, pending, streams, appError>>
          \/ /\ UNCHANGED <<pending, streams, appError>>
             /\ timers # <<>> /\ timers' = Tail(timers)
             /\ timers[Len(timers)] = StatusWindow]_vars

\* C19: while a reflection write is in flight the in-flight flag of the
\* view is true (the save button is disabled), at most one write is in flight,
\* and with no write in flight the flag is false.
C19_OneSaveInFlight ==
    /\ pending # <<>> => reflectionView.isSaving
    /\ Len(pending) <= 1
    /\ pending = <<>> => ~reflectionView.isSaving

\* C20: the status 'Tersimpan!' is shown only after a save whose write was
\* made and accepted; after a save that wrote nothing (empty text, rejected
\* write) the status shown, if any, is 'Gagal menyimpan.'.
C20_StatusReflectsOutcome ==
    /\ reflectionView.saveStatus = "Tersimpan!" => lastSave.state = "written"
    /\ (lastSave.state \in {"skipped", "rejected"} /\ reflectionView.saveStatus # "null")
          => reflectionView.saveStatus = "Gagal menyimpan."

\* a sign-in call is on its way
InFlight(k) == calls[k] \in {"waiting", "network"}

\* C18: with a custom token supplied, an anonymous sign-in is started only
\* after the custom-token sign-in has failed, and once the token has been
\* accepted and no sign-in is on its way, userId is the token's user.
C18_TokenFallback ==
    initialAuthToken =>
        /\ \A k \in {"second", "fallback"} :
               calls[k] # "idle" => calls.first = "failed"
        /\ (calls.first = "done" /\ \A k \in DOMAIN NoCalls : ~InFlight(k))
               => userId = TokenUser

\* C17: in part_000, once the sign-in has been rejected, the error panel is
\* shown, isAuthReady is false, no data listener is registered and no other
\* sign-in is attempted.
C17_AuthErrorBlocks ==
    (variant = "part" /\ calls.first = "failed") =>
        /\ appError /\ Screen = "error"
        /\ ~isAuthReady
        /\ streams = {}
        /\ bound = [m \in Bindings |-> "none"]
        /\ calls.second = "idle"
        /\ currentUser = "null"

\* part_000: the store handle exists, the sign-in was rejected and the
\* effects of the render that shows the error have run
C17_Witness ==
    /\ variant = "part"
    /\ calls.first = "failed"
    /\ db /\ EffectsFlushed
    /\ userId = "Authenticating..."

\* C16: once the app has started without its credential, it shows a blocking
\* error screen (not the loading screen), the store handle is not created, no
\* sign-in has been attempted and no listener is registered.
C16_MissingConfigBlocks ==
    (mounted /\ ~configOk) =>
        /\ Screen = "error"
        /\ ~db
        /\ calls = NoCalls
        /\ streams = {}

\* C15: no rejection of a store write escapes the handler that issued it.
C15_WriteErrorsContained == ~unhandled

\* the handle or the identifier that the write functions test is absent
\* (part_000 never holds a falsy userId)
NoUserOrDb == ~db \/ userId = "null"

-----------------------------------------------------------------------------
(* src/app.js HabitTracker.toggleHabit *)

\* streak written when the user unchecks a habit whose lastChecked is today
DecrementNoFloor(streak) == streak - 1

Decrement(streak) == IF streak > 0 THEN streak - 1 ELSE 0

\* lines 517-530: newCheckedToday and newStreak
NewCheckedToday(habit) == ~habit.checkedToday

\* a streak that grows with every check
NewStreakEveryCheck(habit, day) ==
    IF NewCheckedToday(habit) THEN habit.streak + 1
    ELSE IF habit.lastChecked = day THEN Decrement(habit.streak) ELSE habit.streak

\* a streak that shrinks with every uncheck
NewStreakEveryUncheck(habit, day) ==
    IF NewCheckedToday(habit)
    THEN IF habit.lastChecked = day THEN habit.streak ELSE habit.streak + 1
    ELSE Decrement(habit.streak)

NewStreak(habit, day) ==
    IF NewCheckedToday(habit)
    THEN IF habit.lastChecked = day THEN habit.streak ELSE habit.streak + 1
    ELSE IF habit.lastChecked = day THEN Decrement(habit.streak) ELSE habit.streak

\* lines 532-536: the fields of the single update
toggleHabit(habit, day) ==
    [checkedToday |-> NewCheckedToday(habit),
     streak       |-> NewStreak(habit, day),
     lastChecked  |-> day]

InitHabit ==
    /\ habitDoc \in [checkedToday : BOOLEAN, streak : 0..MaxStreak, lastChecked : Days]
    /\ habitItem = habitDoc
    /\ clock = 1
    /\ today = clock
    /\ trail = <<>>
    /\ editingHabit = <<>>
    /\ SyncIdle
    /\ PageIdle

\* the user clicks the habit's check button: updateHabit(habit.id, {...})
ToggleHabit ==
    /\ habitDoc' = toggleHabit(habitItem, today)
    /\ trail' = (IF Len(trail) = 2 THEN Tail(trail) ELSE trail)
                  \o <<[day |-> today, before |-> habitItem, after |-> habitDoc']>>
    /\ UNCHANGED <<habitItem, clock, today, editingHabit>>
    /\ UNCHANGED <<syncVars, pageVars>>

\* the store echoes the document through the subscription; the new `habits`
\* prop re-renders HabitTracker, which recomputes `today`
HabitSnapshot ==
    /\ habitItem # habitDoc \/ today # clock
    /\ habitItem' = habitDoc
    /\ today' = clock
    /\ UNCHANGED <<habitDoc, clock, trail, editingHabit>>
    /\ UNCHANGED <<syncVars, pageVars>>

\* midnight passes; nothing re-renders by itself
DayPasses ==
    /\ clock < MaxDay
    /\ clock' = clock + 1
    /\ UNCHANGED <<habitDoc, habitItem, today, trail, editingHabit>>
    /\ UNCHANGED <<syncVars, pageVars>>

NextHabit == ToggleHabit \/ HabitSnapshot \/ DayPasses

\* lines 505-511: the record HabitTracker.handleSave adds for a new habit
\* (the fields of the streak machine), on day `day`
newHabit(day) == [checkedToday |-> FALSE, streak |-> 0, lastChecked |-> day]

\* the habit has just been added through the form and is listed
InitNewHabit ==
    /\ clock \in 1..MaxDay
    /\ today = clock
    /\ habitDoc = newHabit(today)
    /\ habitItem = habitDoc
    /\ trail = <<>>
    /\ editingHabit = <<>>
    /\ SyncIdle
    /\ PageIdle

SpecNewHabit == InitNewHabit /\ [][NextHabit]_vars

SpecHabit == InitHabit /\ [][NextHabit]_vars

-----------------------------------------------------------------------------
(* src/app.js HabitTracker's edit form (ActionForm) *)

\* lines 260-262: the three fields ActionForm.handleSubmit adds to the form's
\* inputs, read from the object the form was opened on
\* (x || 0, x || false leave every value as it is; a date string is truthy)
habitFields(initialData) ==
    [checkedToday |-> initialData.checkedToday,
     streak       |-> initialData.streak,
     lastChecked  |-> initialData.lastChecked]

\* lines 500-503: handleOpenModal(habit) on a habit of the rendered list
OpenEditForm ==
    /\ editingHabit = <<>>
    /\ editingHabit' = <<habitItem>>
    /\ UNCHANGED <<habitDoc, habitItem, clock, today, trail>>
    /\ UNCHANGED <<syncVars, pageVars>>

\* lines 245-264, 505-514: the form is submitted; handleSave calls
\* updateHabit(editingHabit.id, data) and closes the form
SaveEditForm ==
    /\ editingHabit # <<>>
    /\ habitDoc' = habitFields(editingHabit[1])
    /\ editingHabit' = <<>>
    /\ UNCHANGED <<habitItem, clock, today, trail>>
    /\ UNCHANGED <<syncVars, pageVars>>

NextHabitEdit == NextHabit \/ OpenEditForm \/ SaveEditForm

SpecHabitEdit == InitHabit /\ [][NextHabitEdit]_vars

-----------------------------------------------------------------------------
(* Claims on the habit streak state machine *)

\* C13: the stored streak, lastChecked and checkedToday of a habit change only
\* in a toggle step; in particular a save of the edit form leaves them as
\* they are stored at the time of the write.
C13_StreakOnlyThroughToggle ==
    [][trail' = trail => habitDoc' = habitDoc]_vars


\* the last two toggles were both made on one day, the first on a checked
\* habit whose lastChecked is that day, the second on the record the first wrote
SameDayRoundTrip ==
    /\ Len(trail) = 2
    /\ trail[1].day = trail[2].day
    /\ trail[1].before.checkedToday
    /\ trail[1].before.lastChecked = trail[1].day
    /\ trail[2].before = trail[1].after

\* C1: for a checked habit with lastChecked = today, toggling to unchecked and
\* then to checked again on the same day, each toggle applied to the record
\* the previous one wrote, leaves the stored streak equal to the original one.
C1_RoundTripRestoresStreak ==
    SameDayRoundTrip => trail[2].after.streak = trail[1].before.streak

\* C24: for a habit added through the form, the first time it becomes
\* checked its streak increases by exactly 1 (to 1), the day it was created
\* included, and checkedToday is true only while lastChecked is the current
\* date.
C24_StreakCountsDays ==
    /\ Len(trail) = 1 => trail[1].after.streak = trail[1].before.streak + 1
    /\ habitDoc.checkedToday => habitDoc.lastChecked = clock

\* C22: a toggle of an unchecked habit writes, in one update of exactly three
\* fields, checkedToday = true, lastChecked = today (the date the component
\* rendered with) and the old streak if the old lastChecked is today, else
\* the old streak + 1.
C22_CheckWrites ==
    \A i \in DOMAIN trail :
        LET t == trail[i] IN
        ~t.before.checkedToday =>
            t.after = [checkedToday |-> TRUE,
                       lastChecked  |-> t.day,
                       streak       |-> IF t.before.lastChecked = t.day
                                        THEN t.before.streak
                                        ELSE t.before.streak + 1]

\* an unchecked habit last checked on an earlier day has been checked, after
\* the uncheck that left it unchecked
C22_Witness ==
    /\ Len(trail) = 2
    /\ trail[1].before.checkedToday
    /\ ~trail[2].before.checkedToday /\ trail[2].before.lastChecked # trail[2].day
    /\ habitDoc = trail[2].after

\* C23: a toggle of a checked habit writes checkedToday = false, lastChecked =
\* today and max(old streak - 1, 0) if the old lastChecked is today, else the
\* old streak.
C23_UncheckWrites ==
    \A i \in DOMAIN trail :
        LET t == trail[i] IN
        t.before.checkedToday =>
            t.after = [checkedToday |-> FALSE,
                       lastChecked  |-> t.day,
                       streak       |-> IF t.before.lastChecked = t.day
                                        THEN (IF t.before.streak - 1 > 0
                                              THEN t.before.streak - 1 ELSE 0)
                                        ELSE t.before.streak]

\* a checked habit with a streak, last checked this day, has been unchecked,
\* after the check that left it checked
C23_Witness ==
    /\ Len(trail) = 2
    /\ ~trail[1].before.checkedToday
    /\ trail[2].before.checkedToday /\ trail[2].before.lastChecked = trail[2].day
    /\ trail[2].before.streak > 0
    /\ habitDoc = trail[2].after

\* C2: whatever the toggle sequence and the dates, the streak written to the
\* store is never below 0.
C2_StreakFloor == habitDoc.streak >= 0

\* a checked habit of streak 0, last checked today, has been unchecked
C2_Witness ==
    /\ Len(trail) >= 1
    /\ LET t == trail[Len(trail)] IN
         /\ t.before.checkedToday
         /\ t.before.streak = 0
         /\ t.before.lastChecked = t.day
         /\ t.after.streak = 0
         /\ habitDoc = t.after

-----------------------------------------------------------------------------
\* Dashboard (src/app.js 749-761): the three pending tasks shown as priorities

\* the largest task list the Dashboard is rendered on
MaxTasks == 4

priorityOptions ==
    {"Penting - Mendesak", "Penting - Non-mendesak", "Non-penting - Mendesak"}

\* the task lists the mirror can hand to the Dashboard (ids are distinct)
TaskLists ==
    UNION {[1..n -> [priority : priorityOptions, completed : BOOLEAN]] : n \in 0..MaxTasks}

WithIds(list) ==
    [i \in DOMAIN list |-> [id |-> i, priority |-> list[i].priority,
                            completed |-> list[i].completed]]

\* a comparator that looks at its second argument
sortCompareOfSecond(a, b) == IF b.priority = "Penting - Mendesak" THEN -1 ELSE 1

\* (a, b) => a.priority === 'Penting - Mendesak' ? -1 : 1
sortCompare(a, b) == IF a.priority = "Penting - Mendesak" THEN -1 ELSE 1

\* The comparator is not a consistent ordering, so the order Array.prototype.sort
\* produces is the engine's: the model lets the engine be any of three sorting
\* procedures that engines use on short arrays.
Engines == {"binary insertion", "insertion", "merge"}

Reverse(s) == [i \in 1..Len(s) |-> s[Len(s) + 1 - i]]

\* the length of the initial run (the comparator gets the later element first)
RECURSIVE CountRun(_, _, _)
CountRun(array, idx, isDescending) ==
    IF idx > Len(array) THEN idx - 1
    ELSE LET order == sortCompare(array[idx], array[idx - 1]) IN
         IF (isDescending /\ order >= 0) \/ (~isDescending /\ order < 0)
         THEN idx - 1
         ELSE CountRun(array, idx + 1, isDescending)

\* where the pivot goes among the `right` elements already placed (0-based)
RECURSIVE BinarySearch(_, _, _, _)
BinarySearch(array, pivot, left, right) ==
    IF left < right
    THEN LET mid == left + ((right - left) \div 2) IN
         IF sortCompare(pivot, array[mid + 1]) < 0
         THEN BinarySearch(array, pivot, left, mid)
         ELSE BinarySearch(array, pivot, mid + 1, right)
    ELSE left

RECURSIVE BinaryInsertionSort(_, _)
BinaryInsertionSort(array, start) ==
    IF start >= Len(array) THEN array
    ELSE LET pivot == array[start + 1]
             left == BinarySearch(array, pivot, 0, start)
         IN BinaryInsertionSort(SubSeq(array, 1, left) \o <<pivot>>
                                \o SubSeq(array, left + 1, start)
                                \o SubSeq(array, start + 2, Len(array)), start + 1)

\* run detection, then binary insertion of the remaining elements
RunThenInsert(array) ==
    IF Len(array) < 2 THEN array
    ELSE LET isDescending == sortCompare(array[2], array[1]) < 0
             runLength == CountRun(array, 3, isDescending)
             run == IF isDescending
                    THEN Reverse(SubSeq(array, 1, runLength))
                         \o SubSeq(array, runLength + 1, Len(array))
                    ELSE array
         IN BinaryInsertionSort(run, runLength)

\* straight insertion: walk down from the end while comparefn(element, item) > 0
RECURSIVE InsertFromEnd(_, _, _)
InsertFromEnd(sorted, j, item) ==
    IF j >= 1 /\ sortCompare(sorted[j], item) > 0
    THEN InsertFromEnd(sorted, j - 1, item)
    ELSE SubSeq(sorted, 1, j) \o <<item>> \o SubSeq(sorted, j + 1, Len(sorted))

RECURSIVE InsertionSort(_, _)
InsertionSort(array, i) ==
    IF i > Len(array) THEN array
    ELSE InsertionSort(InsertFromEnd(SubSeq(array, 1, i - 1), i - 1, array[i])
                       \o SubSeq(array, i + 1, Len(array)), i + 1)

\* merge of two runs: the right element goes first when comparefn(right, left) < 0
RECURSIVE MergeRuns(_, _)
MergeRuns(left, right) ==
    IF right = <<>> THEN left
    ELSE IF left = <<>> THEN right
    ELSE IF sortCompare(Head(right), Head(left)) < 0
         THEN <<Head(right)>> \o MergeRuns(left, Tail(right))
         ELSE <<Head(left)>> \o MergeRuns(Tail(left), right)

RECURSIVE MergePass(_, _)
MergePass(array, width) ==
    IF Len(array) <= width THEN array
    ELSE LET stop == IF 2 * width < Len(array) THEN 2 * width ELSE Len(array) IN
         MergeRuns(SubSeq(array, 1, width), SubSeq(array, width + 1, stop))
         \o MergePass(SubSeq(array, stop + 1, Len(array)), width)

RECURSIVE MergeSort(_, _)
MergeSort(array, width) ==
    IF width >= Len(array) THEN array
    ELSE MergeSort(MergePass(array, width), 2 * width)

\* array.sort(comparefn) as the engine performs it
ArraySort(array, engine) ==
    CASE engine = "binary insertion" -> RunThenInsert(array)
      [] engine = "insertion" -> InsertionSort(array, 2)
      [] engine = "merge" -> MergeSort(array, 1)

\* tasks.filter(t => !t.completed).sort(...).slice(0, 3)
top3Priorities(tasks, engine) ==
    LET stillPending == SelectSeq(tasks, LAMBDA t : ~t.completed)
        sorted == ArraySort(stillPending, engine)
    IN SubSeq(sorted, 1, IF Len(sorted) < 3 THEN Len(sorted) ELSE 3)

\* The Dashboard renders: filter returns a new array, which is the one sort
\* reorders; the tasks prop is read only.
RenderDashboard(engine) ==
    /\ dashboard' = [dashboard EXCEPT
                        !.top3Priorities = top3Priorities(dashboard.tasks, engine),
                        !.rendered = TRUE]
    /\ UNCHANGED <<habitVars, syncVars, checkedState, lastCheck>>
    /\ UNCHANGED <<taskDoc, taskItem, editingTask, focus>>

InitDashboard ==
    /\ HabitIdle
    /\ SyncIdle
    /\ RoutineMounted
    /\ TaskListed
    /\ FocusMounted
    /\ \E list \in TaskLists :
          dashboard = [tasks |-> WithIds(list), top3Priorities |-> <<>>,
                       rendered |-> FALSE]

NextDashboard == \E engine \in Engines : RenderDashboard(engine)

SpecDashboard == InitDashboard /\ [][NextDashboard]_vars

IsUrgent(t) == t.priority = "Penting - Mendesak"

Top3Ranked(tasks, top) ==
    LET stillPending == SelectSeq(tasks, LAMBDA t : ~t.completed) IN
    /\ Len(top) <= 3
    /\ Len(top) = (IF Len(stillPending) < 3 THEN Len(stillPending) ELSE 3)
    /\ \A i \in DOMAIN top :
          /\ top[i].completed = FALSE
          /\ \E k \in DOMAIN tasks : tasks[k] = top[i]
    /\ \A i, j \in DOMAIN top : i # j => top[i] # top[j]
    /\ \A i, j \in DOMAIN top : (i < j /\ IsUrgent(top[j])) => IsUrgent(top[i])
    /\ \A k \in DOMAIN stillPending :
          (IsUrgent(stillPending[k]) /\ \A i \in DOMAIN top : top[i] # stillPending[k])
             => \A i \in DOMAIN top : IsUrgent(top[i])

\* C25: the Dashboard's top priorities are at most three tasks of the mirror,
\* all pending, every pending 'Penting - Mendesak' task ranked before every
\* pending task of another priority, and computing them leaves the tasks
\* mirror as it was.
C25_Top3Priorities ==
    [][dashboard'.rendered =>
          /\ Top3Ranked(dashboard'.tasks, dashboard'.top3Priorities)
          /\ dashboard'.tasks = dashboard.tasks]_vars

\* four tasks, one completed, an urgent task entered after a pending task of
\* another priority: the urgent one is shown first, the other after it
C25_Witness ==
    /\ dashboard.rendered
    /\ Len(dashboard.tasks) = 4
    /\ \E k \in 1..4 : dashboard.tasks[k].completed
    /\ Len(dashboard.top3Priorities) = 3
    /\ IsUrgent(dashboard.top3Priorities[1])
    /\ ~IsUrgent(dashboard.top3Priorities[3])
    /\ dashboard.top3Priorities[1].id > dashboard.top3Priorities[3].id

-----------------------------------------------------------------------------
\* DailyRoutine (src/app.js 647-702): the checklist of the day's activities

\* the user clicks on the first MaxClicked activities of each block
MaxClicked == 1

Buttons ==
    {<<r, dailyRoutines[r][k]>> : r \in DOMAIN dailyRoutines, k \in 1..MaxClicked}

\* array.indexOf(id), 1-based; 0 when the id is absent
indexOf(array, id) ==
    IF \E k \in DOMAIN array : array[k] = id
    THEN CHOOSE k \in DOMAIN array :
            array[k] = id /\ \A j \in 1..(k - 1) : array[j] # id
    ELSE 0

\* lines 693-699: splice(activityIndex, 1) when the id is listed, push otherwise
spliceOrPush(array, activityId) ==
    LET activityIndex == indexOf(array, activityId) IN
    IF activityIndex > 0
    THEN SubSeq(array, 1, activityIndex - 1)
         \o SubSeq(array, activityIndex + 1, Len(array))
    ELSE Append(array, activityId)

\* lines 689-701: the function handed to setCheckedState. newState = [...prev]
\* copies the outer array only, so newState[routineIndex] is the very array
\* prev[routineIndex]: splice and push change it in both. The record holds the
\* value returned and the value of prev once the function has run.
updater(prev, routineIndex, activityId) ==
    LET inner == spliceOrPush(prev[routineIndex], activityId) IN
    [newState |-> [prev EXCEPT ![routineIndex] = inner],
     prev     |-> [prev EXCEPT ![routineIndex] = inner]]

\* lines 688-702: a click on an activity's button. The runtime runs the
\* updater once, or (development builds under StrictMode) a second time on
\* the same prev object, and takes the value returned last.
handleCheck(routineIndex, activityId, invocations) ==
    LET first == updater(checkedState, routineIndex, activityId)
        second == updater(first.prev, routineIndex, activityId)
    IN /\ checkedState' = (IF invocations = 1 THEN first.newState ELSE second.newState)
       /\ lastCheck' = [invocations |-> invocations,
                        routineIndex |-> routineIndex,
                        activityId |-> activityId,
                        prev |-> checkedState,
                        prevAfter |-> first.prev,
                        first |-> first.newState,
                        last |-> checkedState']
       /\ UNCHANGED <<habitVars, syncVars, dashboard, taskDoc, taskItem, editingTask, focus>>

InitRoutine ==
    /\ HabitIdle
    /\ SyncIdle
    /\ PageIdle

\* clicks, a day change and a snapshot re-rendering the page
NextRoutine ==
    \/ \E b \in Buttons, invocations \in 1..2 : handleCheck(b[1], b[2], invocations)
    \/ DayPasses
    \/ HabitSnapshot

SpecRoutine == InitRoutine /\ [][NextRoutine]_vars

\* the (block index, activity id) entries shown as checked (line 724)
CheckedEntries(state) ==
    UNION {{<<r, state[r][k]>> : k \in DOMAIN state[r]} : r \in DOMAIN state}

FlipEntry(entries, e) == IF e \in entries THEN entries \ {e} ELSE entries \cup {e}

ClickedEntry(check) == <<check.routineIndex, check.activityId>>

\* C26: at mount every activity of the five blocks is checked; a call of
\* handleCheck flips exactly the (block index, activity id) entry clicked and
\* leaves every other entry as it was; no other step (a day change, a
\* snapshot) alters the check-state.
C26_RoutineToggle ==
    [][/\ lastCheck.invocations = 0 =>
             /\ Len(checkedState) = 5
             /\ CheckedEntries(checkedState) = CheckedEntries(dailyRoutines)
       /\ IF lastCheck' # lastCheck
          THEN CheckedEntries(checkedState') =
                  FlipEntry(CheckedEntries(checkedState), ClickedEntry(lastCheck'))
          ELSE checkedState' = checkedState]_vars

\* C27: the updater of handleCheck leaves the prev it receives as it was, a
\* second run on the same prev returns what the first returned, and one click
\* flips the clicked entry exactly once.
C27_UpdaterPure ==
    lastCheck.invocations > 0 =>
        /\ lastCheck.prevAfter = lastCheck.prev
        /\ lastCheck.last = lastCheck.first
        /\ CheckedEntries(checkedState) =
              FlipEntry(CheckedEntries(lastCheck.prev), ClickedEntry(lastCheck))

-----------------------------------------------------------------------------
\* TaskManager's edit form (src/app.js 245-255, 344-366)

\* the names typed into the form
TaskNames == {"Tugas Skripsi Bab 1", "Tugas Skripsi Bab 2", "Edit konten"}

\* the tasks the store can hold when TaskManager is shown: the seeded task,
\* or a task entered through the form (subtasks: []), completed or not
StoredTasks ==
    {seededTask} \cup
    [name : TaskNames, subtasks : {<<>>}, completed : BOOLEAN]

\* lines 248-255: the record ActionForm.handleSubmit passes on for a task;
\* subtasks and completed are read from the object the form was opened on
\* (x || [] and x || false leave an array and a boolean as they are)
taskFields(name, initialData) ==
    [name      |-> name,
     subtasks  |-> initialData.subtasks,
     completed |-> initialData.completed]

\* lines 364-366: toggleCompletion(task) on the task of the rendered list:
\* updateTask(task.id, { completed: !task.completed })
toggleCompletion ==
    /\ taskDoc' = [completed |-> ~taskItem.completed] @@ taskDoc
    /\ UNCHANGED <<taskItem, editingTask>>
    /\ UNCHANGED <<habitVars, syncVars, dashboard, checkedState, lastCheck, focus>>

\* the store echoes the document through the subscription
TaskSnapshot ==
    /\ taskItem # taskDoc
    /\ taskItem' = taskDoc
    /\ UNCHANGED <<taskDoc, editingTask>>
    /\ UNCHANGED <<habitVars, syncVars, dashboard, checkedState, lastCheck, focus>>

\* lines 349-352: handleOpenModal(task) on the task of the rendered list
OpenTaskForm ==
    /\ editingTask = <<>>
    /\ editingTask' = <<taskItem>>
    /\ UNCHANGED <<taskDoc, taskItem>>
    /\ UNCHANGED <<habitVars, syncVars, dashboard, checkedState, lastCheck, focus>>

\* lines 245-255, 354-362: the form is submitted; handleSave calls
\* updateTask(editingTask.id, data) and closes the form
SaveTaskForm(name) ==
    /\ editingTask # <<>>
    /\ taskDoc' = taskFields(name, editingTask[1]) @@ taskDoc
    /\ editingTask' = <<>>
    /\ UNCHANGED taskItem
    /\ UNCHANGED <<habitVars, syncVars, dashboard, checkedState, lastCheck, focus>>

InitTaskEdit ==
    /\ HabitIdle
    /\ SyncIdle
    /\ dashboard = [tasks |-> <<>>, top3Priorities |-> <<>>, rendered |-> FALSE]
    /\ RoutineMounted
    /\ FocusMounted
    /\ taskDoc \in StoredTasks
    /\ taskItem = taskDoc
    /\ editingTask = <<>>

NextTaskEdit ==
    \/ toggleCompletion
    \/ TaskSnapshot
    \/ OpenTaskForm
    \/ \E name \in TaskNames : SaveTaskForm(name)

SpecTaskEdit == InitTaskEdit /\ [][NextTaskEdit]_vars

\* C28: a save of the task edit form leaves the stored completed flag and
\* subtasks as they are at the time of the write.
C28_EditKeepsCompletion ==
    [][(editingTask # <<>> /\ editingTask' = <<>>) =>
          /\ taskDoc'.completed = taskDoc.completed
          /\ taskDoc'.subtasks = taskDoc.subtasks]_vars

-----------------------------------------------------------------------------
(* Claims on the user path of part_000 *)

\* the values userId holds when the provider has returned no user
Placeholders == {"Authenticating...", "Anonymous"}

\* C29: in part_000 no listener is registered on, and no document is written
\* to, the collection path of a placeholder identifier ('Authenticating...'
\* or 'Anonymous'), also after the auth-state callback has reported that no
\* user is signed in.
C29_NoPlaceholderPath ==
    variant = "part" =>
        /\ \A x \in streams : x.path \notin Placeholders
        /\ \A p \in Paths \cap Placeholders, c \in Collections : store[p][c] = {}

-----------------------------------------------------------------------------
\* FocusMode (src/app.js 850-881): the countdown of a focus or break session

\* the length of a session of the mode
Duration(isPomodoro) == IF isPomodoro THEN FocusSeconds ELSE BreakSeconds

\* an effect that registers the interval whenever the timer is active
countdownEffectNoStop(st) ==
    [st EXCEPT !.interval = st.isActive]

\* lines 866-881: the cleanup of the previous run clears its interval; the
\* effect registers a new one while the timer is active with time left, and
\* at time 0 calls setIsActive(false)
countdownEffect(st) ==
    IF st.isActive /\ st.time > 0
    THEN [st EXCEPT !.interval = TRUE]
    ELSE IF st.time = 0
         THEN [st EXCEPT !.interval = FALSE, !.isActive = FALSE]
         ELSE [st EXCEPT !.interval = FALSE]

\* the render after a state change and its effect; a setIsActive(false) of the
\* effect that changes the state renders once more
Rendered(st) ==
    LET once == countdownEffect(st) IN
    IF once.isActive # st.isActive THEN countdownEffect(once) ELSE once

\* line 936: the start / pause button, setIsActive(prev => !prev)
StartPause ==
    /\ focus' = Rendered([focus EXCEPT !.isActive = ~focus.isActive])
    /\ UNCHANGED <<habitVars, syncVars, dashboard, checkedState, lastCheck>>
    /\ UNCHANGED <<taskDoc, taskItem, editingTask>>

\* lines 855-859
toggleMode ==
    /\ focus' = Rendered([focus EXCEPT
                            !.isPomodoro = ~focus.isPomodoro,
                            !.time = (IF focus.isPomodoro THEN BreakSeconds
                                                          ELSE FocusSeconds),
                            !.isActive = FALSE])
    /\ UNCHANGED <<habitVars, syncVars, dashboard, checkedState, lastCheck>>
    /\ UNCHANGED <<taskDoc, taskItem, editingTask>>

\* lines 861-864
resetTimer ==
    /\ focus' = Rendered([focus EXCEPT
                            !.isActive = FALSE,
                            !.time = (IF focus.isPomodoro THEN FocusSeconds
                                                          ELSE BreakSeconds)])
    /\ UNCHANGED <<habitVars, syncVars, dashboard, checkedState, lastCheck>>
    /\ UNCHANGED <<taskDoc, taskItem, editingTask>>

\* lines 869-871: a second has passed and the registered interval fires,
\* setTime(time => time - 1)
IntervalFires ==
    /\ focus.interval
    /\ focus' = Rendered([focus EXCEPT !.time = focus.time - 1])
    /\ UNCHANGED <<habitVars, syncVars, dashboard, checkedState, lastCheck>>
    /\ UNCHANGED <<taskDoc, taskItem, editingTask>>

InitFocus ==
    /\ HabitIdle
    /\ SyncIdle
    /\ PageIdle

NextFocus == StartPause \/ toggleMode \/ resetTimer \/ IntervalFires

SpecFocus == InitFocus /\ [][NextFocus]_vars

InBounds(st) == 0 <= st.time /\ st.time <= Duration(st.isPomodoro)

\* C30: the remaining time is between 0 and the duration of the current mode
\* (1500 s focus, 300 s break); within a mode it goes down only from a state
\* in which the timer is active; at 0 the timer is inactive, and the time
\* leaves 0 only to the full duration of a mode (a reset or a mode switch).
C30_TimerBounds ==
    [][/\ InBounds(focus) /\ InBounds(focus')
       /\ (focus'.time < focus.time /\ focus'.isPomodoro = focus.isPomodoro)
             => focus.isActive
       /\ focus'.time = 0 => ~focus'.isActive
       /\ (focus.time = 0 /\ focus'.time # 0)
             => focus'.time = Duration(focus'.isPomodoro) /\ ~focus'.isActive]_vars

\* a break session counted down to its end
C30_Witness ==
    /\ ~focus.isPomodoro
    /\ focus.time = 0
    /\ ~focus.isActive
    /\ ~focus.interval

=============================================================================
